---- MODULE Spec2Model ----
(***************************************************************************)
(* Model of 01.TicTacToe/TicTacToe.cpp: Board, StandardRule and the game   *)
(* loop TicTacToe::play, as set up by main.                                *)
(***************************************************************************)
EXTENDS Integers, Sequences, FiniteSets, TLC

(* Largest board size entered at the size prompt. *)
MaxSize == 3

(* Integers typed at the row/column prompt: every index of the board, the  *)
(* first value past its end, one value BelowRange under 0 and the far      *)
(* out-of-range value FarInput.                                            *)
BelowRange == 1
FarInput == 5

(* Symbol objects: the Board's emptySymbol and the two players' symbols,   *)
(* identified by the character each holds.  nullptr is what getCell        *)
(* returns outside the grid.                                               *)
emptySymbol == " "
nullptr == "nullptr"

(* The deque filled by main: Player 1 with 'X', then Player 2 with 'O'.    *)
players ==
    << [id |-> 1, name |-> "Player 1", s |-> "X"],
       [id |-> 2, name |-> "Player 2", s |-> "O"] >>

VARIABLES
    size,                \* Board::size
    grid,                \* Board::grid, grid[r][c] is a Symbol
    gameOver,            \* TicTacToe::gameOver
    currentPlayerIndex,  \* local of play()
    row, col,            \* locals of play(), as last read from cin
    pc,                  \* position of main: "start", "loop" or "done"
    out,                 \* what the last step wrote to cout
    movesCount,          \* number of moves placed so far (history)
    rowAcc, colAcc,      \* line accumulators of the counter-based detector,
    diagAcc, antiDiagAcc \* kept next to the board

accs == << rowAcc, colAcc, diagAcc, antiDiagAcc >>

vars == << size, grid, gameOver, currentPlayerIndex, row, col, pc, out, movesCount, accs >>

Idx(n) == 0 .. (n - 1)

(* Values cin >> row >> col can deliver.  A failed extraction leaves 0 in   *)
(* row and an indeterminate value in col, which is one of these choices.   *)
Inputs == {0 - BelowRange} \cup (0 .. MaxSize) \cup {FarInput}

(* A bounds check that forgets to look at the cell *)
isCellEmpty_IgnoresOccupancy(g, n, r, c) ==
    IF r < 0 \/ r >= n \/ c < 0 \/ c >= n
    THEN FALSE
    ELSE TRUE

(* Board::isCellEmpty *)
isCellEmpty(g, n, r, c) ==
    IF r < 0 \/ r >= n \/ c < 0 \/ c >= n
    THEN FALSE
    ELSE g[r][c] = emptySymbol

(* Board::getCell *)
getCell(g, n, r, c) ==
    IF r < 0 \/ r >= n \/ c < 0 \/ c >= n
    THEN nullptr
    ELSE g[r][c]

(* A markCell that tests the cell and never stores the symbol *)
markCell_NoWrite(g, n, r, c, s) == g

(* A markCell that stores the symbol at the transposed cell *)
markCell_Transposed(g, n, r, c, s) ==
    IF ~isCellEmpty(g, n, r, c)
    THEN g
    ELSE [g EXCEPT ![c][r] = s]

(* Board::markCell: the grid after the call *)
markCell(g, n, r, c, s) ==
    IF ~isCellEmpty(g, n, r, c)
    THEN g
    ELSE [g EXCEPT ![r][c] = s]

(* A validator that only tests the bounds *)
isValidMove_BoundsOnly(g, n, r, c) ==
    ~(r < 0 \/ r >= n \/ c < 0 \/ c >= n)

(* StandardRule::isValidMove *)
isValidMove(g, n, r, c) == isCellEmpty(g, n, r, c)

(* checkWin without the anti-diagonal *)
checkWin_NoAntiDiag(g, n, s) ==
    \/ \E i \in Idx(n) : \A j \in Idx(n) : getCell(g, n, i, j) = s
    \/ \E i \in Idx(n) : \A j \in Idx(n) : getCell(g, n, j, i) = s
    \/ \A i \in Idx(n) : getCell(g, n, i, i) = s

(* checkWin without the second loop *)
checkWin_NoDiagonals(g, n, s) ==
    \/ \E i \in Idx(n) : \A j \in Idx(n) : getCell(g, n, i, j) = s
    \/ \E i \in Idx(n) : \A j \in Idx(n) : getCell(g, n, j, i) = s

(* checkWin whose first loop only looks at columns *)
checkWin_ColumnsOnly(g, n, s) ==
    \/ \E i \in Idx(n) : \A j \in Idx(n) : getCell(g, n, j, i) = s
    \/ \A i \in Idx(n) : getCell(g, n, i, i) = s
    \/ \A i \in Idx(n) : getCell(g, n, i, n - 1 - i) = s

(* checkWin whose second loop forgets the main diagonal *)
checkWin_NoMainDiag(g, n, s) ==
    \/ \E i \in Idx(n) : \A j \in Idx(n) : getCell(g, n, i, j) = s
    \/ \E i \in Idx(n) : \A j \in Idx(n) : getCell(g, n, j, i) = s
    \/ \A i \in Idx(n) : getCell(g, n, i, n - 1 - i) = s

(* checkWin that only looks at rows *)
checkWin_RowsOnly(g, n, s) ==
    \E i \in Idx(n) : \A j \in Idx(n) : getCell(g, n, i, j) = s

(* StandardRule::checkWin: the row/column loop, then the diagonal loop *)
checkWin(g, n, s) ==
    LET rowWin(i) == \A j \in Idx(n) : getCell(g, n, i, j) = s
        colWin(i) == \A j \in Idx(n) : getCell(g, n, j, i) = s
        diagWin == \A i \in Idx(n) : getCell(g, n, i, i) = s
        antiDiagWin == \A i \in Idx(n) : getCell(g, n, i, n - 1 - i) = s
    IN  IF \E i \in Idx(n) : rowWin(i) \/ colWin(i)
        THEN TRUE
        ELSE diagWin \/ antiDiagWin

(* checkDraw whose outer loop stops one row early *)
checkDraw_SkipsLastRow(g, n) ==
    ~ \E r \in Idx(n - 1) : \E c \in Idx(n) : isCellEmpty(g, n, r, c)

(* checkDraw that never finds the board full *)
checkDraw_Never(g, n) == FALSE

(* StandardRule::checkDraw *)
checkDraw(g, n) ==
    ~ \E r \in Idx(n) : \E c \in Idx(n) : isCellEmpty(g, n, r, c)

(* Lines written to cout *)
Display == << "display", "" >>
Prompt(p) == << "turn", p.name >>
Invalid == << "invalid", "" >>

(* A winner line that names the player who would have moved next *)
Wins_NextPlayer(p) == << "wins", players[(p.id % Len(players)) + 1].name >>

Wins(p) == << "wins", p.name >>
Draw == << "draw", "" >>

(* Board::Board as called from GameFactory::createGame, TicTacToe's        *)
(* constructor, and main up to the call of play().  A negative size makes  *)
(* the vector constructor throw before any game exists.  row and col are   *)
(* not read before the first cin >> row >> col writes them.                *)
Init ==
    /\ size \in 0 .. MaxSize
    /\ grid = [r \in Idx(size) |-> [c \in Idx(size) |-> emptySymbol]]
    /\ gameOver = FALSE
    /\ currentPlayerIndex = 0
    /\ row = 0
    /\ col = 0
    /\ pc = "start"
    /\ out = << >>
    /\ movesCount = 0
    /\ rowAcc = [i \in Idx(size) |-> 0]
    /\ colAcc = [i \in Idx(size) |-> 0]
    /\ diagAcc = 0
    /\ antiDiagAcc = 0

(* A start of play() that hands the first turn to the second player *)
PlayBegin_StartsAtOne ==
    /\ pc = "start"
    /\ pc' = "loop"
    /\ currentPlayerIndex' = 1
    /\ out' = << Display >>
    /\ UNCHANGED << size, grid, gameOver, row, col, movesCount >>

(* A start of play() that does not show the empty board *)
PlayBegin_NoDisplay ==
    /\ pc = "start"
    /\ pc' = "loop"
    /\ currentPlayerIndex' = 0
    /\ out' = << >>
    /\ UNCHANGED << size, grid, gameOver, row, col, movesCount >>

(* play(): currentPlayerIndex = 0 and the first board->display() *)
PlayBegin ==
    /\ pc = "start"
    /\ pc' = "loop"
    /\ currentPlayerIndex' = 0
    /\ out' = << Display >>
    /\ UNCHANGED << size, grid, gameOver, row, col, movesCount >>

(* A loop that never looks at gameOver *)
LoopCondition_Always == TRUE

(* play(): while (!gameOver) *)
LoopCondition == ~gameOver

(* An iteration that asks for the draw before the win *)
Turn_DrawBeforeWin(r, c) ==
    LET currentPlayer == players[currentPlayerIndex + 1]
        g2 == markCell(grid, size, r, c, currentPlayer.s)
    IN  /\ pc = "loop"
        /\ LoopCondition
        /\ row' = r
        /\ col' = c
        /\ IF ~isValidMove(grid, size, r, c)
           THEN /\ out' = << Prompt(currentPlayer), Invalid >>
                /\ UNCHANGED << grid, gameOver, currentPlayerIndex, movesCount >>
           ELSE /\ grid' = g2
                /\ movesCount' = movesCount + 1
                /\ IF checkDraw(g2, size)
                   THEN /\ out' = << Prompt(currentPlayer), Display, Draw >>
                        /\ gameOver' = TRUE
                        /\ UNCHANGED currentPlayerIndex
                   ELSE IF checkWin(g2, size, currentPlayer.s)
                   THEN /\ out' = << Prompt(currentPlayer), Display, Wins(currentPlayer) >>
                        /\ gameOver' = TRUE
                        /\ UNCHANGED currentPlayerIndex
                   ELSE /\ out' = << Prompt(currentPlayer), Display >>
                        /\ currentPlayerIndex' = (currentPlayerIndex + 1) % Len(players)
                        /\ UNCHANGED gameOver
        /\ UNCHANGED << size, pc >>

(* An iteration that hands the turn on after a refused move as well *)
Turn_RefusedMovePassesTurn(r, c) ==
    LET currentPlayer == players[currentPlayerIndex + 1]
        g2 == markCell(grid, size, r, c, currentPlayer.s)
    IN  /\ pc = "loop"
        /\ LoopCondition
        /\ row' = r
        /\ col' = c
        /\ IF ~isValidMove(grid, size, r, c)
           THEN /\ out' = << Prompt(currentPlayer), Invalid >>
                /\ currentPlayerIndex' = (currentPlayerIndex + 1) % Len(players)
                /\ UNCHANGED << grid, gameOver, movesCount >>
           ELSE /\ grid' = g2
                /\ movesCount' = movesCount + 1
                /\ IF checkWin(g2, size, currentPlayer.s)
                   THEN /\ out' = << Prompt(currentPlayer), Display, Wins(currentPlayer) >>
                        /\ gameOver' = TRUE
                        /\ UNCHANGED currentPlayerIndex
                   ELSE IF checkDraw(g2, size)
                   THEN /\ out' = << Prompt(currentPlayer), Display, Draw >>
                        /\ gameOver' = TRUE
                        /\ UNCHANGED currentPlayerIndex
                   ELSE /\ out' = << Prompt(currentPlayer), Display >>
                        /\ currentPlayerIndex' = (currentPlayerIndex + 1) % Len(players)
                        /\ UNCHANGED gameOver
        /\ UNCHANGED << size, pc >>

(* play(): one iteration of the while loop, reading (r, c) from cin.  A     *)
(* refused move prints the message and continues; a valid one is placed,   *)
(* the board is displayed, and the win is tested before the draw.          *)
Turn(r, c) ==
    LET currentPlayer == players[currentPlayerIndex + 1]
        g2 == markCell(grid, size, r, c, currentPlayer.s)
    IN  /\ pc = "loop"
        /\ LoopCondition
        /\ row' = r
        /\ col' = c
        /\ IF ~isValidMove(grid, size, r, c)
           THEN /\ out' = << Prompt(currentPlayer), Invalid >>
                /\ UNCHANGED << grid, gameOver, currentPlayerIndex, movesCount >>
           ELSE /\ grid' = g2
                /\ movesCount' = movesCount + 1
                /\ IF checkWin(g2, size, currentPlayer.s)
                   THEN /\ out' = << Prompt(currentPlayer), Display, Wins(currentPlayer) >>
                        /\ gameOver' = TRUE
                        /\ UNCHANGED currentPlayerIndex
                   ELSE IF checkDraw(g2, size)
                   THEN /\ out' = << Prompt(currentPlayer), Display, Draw >>
                        /\ gameOver' = TRUE
                        /\ UNCHANGED currentPlayerIndex
                   ELSE /\ out' = << Prompt(currentPlayer), Display >>
                        /\ currentPlayerIndex' = (currentPlayerIndex + 1) % Len(players)
                        /\ UNCHANGED gameOver
        /\ UNCHANGED << size, pc >>

(* play(): the while condition fails and play() returns to main *)
PlayEnd ==
    /\ pc = "loop"
    /\ ~LoopCondition
    /\ pc' = "done"
    /\ out' = << >>
    /\ UNCHANGED << size, grid, gameOver, currentPlayerIndex, row, col, movesCount >>

(* The signed unit a player's mark adds to the accumulators of its lines:  *)
(* +1 for the first player, -1 for the second.                             *)
contribution(p) == IF p.id = 1 THEN 1 ELSE 0 - 1

(* The counter-based variant's placement, run on the move (r, c) that the  *)
(* iteration reads: an accepted move adds the mover's contribution to the  *)
(* accumulator of its row and of its column, and to the diagonal           *)
(* accumulators when r = c and when r + c = n - 1; a refused move leaves   *)
(* the accumulators alone.                                                 *)
Accumulate(r, c) ==
    LET v == contribution(players[currentPlayerIndex + 1])
    IN  IF isValidMove(grid, size, r, c)
        THEN /\ rowAcc' = [rowAcc EXCEPT ![r] = @ + v]
             /\ colAcc' = [colAcc EXCEPT ![c] = @ + v]
             /\ diagAcc' = IF r = c THEN diagAcc + v ELSE diagAcc
             /\ antiDiagAcc' = IF r + c = size - 1 THEN antiDiagAcc + v ELSE antiDiagAcc
        ELSE UNCHANGED accs

Abs(x) == IF x < 0 THEN 0 - x ELSE x

(* The counter-based variant's win test after the move (r, c): one of the  *)
(* accumulators the move touched has magnitude n.                          *)
incrementalWin(ra, ca, da, aa, n, r, c) ==
    \/ Abs(ra[r]) = n
    \/ Abs(ca[c]) = n
    \/ r = c /\ Abs(da) = n
    \/ r + c = n - 1 /\ Abs(aa) = n

Next ==
    \/ PlayBegin /\ UNCHANGED accs
    \/ \E r \in Inputs : \E c \in Inputs : Turn(r, c) /\ Accumulate(r, c)
    \/ PlayEnd /\ UNCHANGED accs

Spec == Init /\ [][Next]_vars

(* The moves typed in the runs checked for termination: every index of the *)
(* board and the first value past its end, so that occupied and            *)
(* out-of-range targets are both typed.                                    *)
FairInputs == 0 .. MaxSize

(* An iteration whose move is accepted *)
AcceptedTurn ==
    \E r \in FairInputs : \E c \in FairInputs :
        isValidMove(grid, size, r, c) /\ Turn(r, c) /\ Accumulate(r, c)

FairNext ==
    \/ PlayBegin /\ UNCHANGED accs
    \/ \E r \in FairInputs : \E c \in FairInputs : Turn(r, c) /\ Accumulate(r, c)
    \/ PlayEnd /\ UNCHANGED accs

(* The program runs on: play() is entered and left when it can be, and the *)
(* player to move does not type refused moves forever.                     *)
FairSpec ==
    /\ Init
    /\ [][FairNext]_vars
    /\ WF_vars(PlayBegin /\ UNCHANGED accs)
    /\ WF_vars(AcceptedTurn)
    /\ WF_vars(PlayEnd /\ UNCHANGED accs)

(***************************************************************************)
(* Vocabulary of the properties                                            *)
(***************************************************************************)

Range(q) == { q[i] : i \in 1 .. Len(q) }

Cells(n) == Idx(n) \X Idx(n)

InBounds(r, c) == 0 <= r /\ r < size /\ 0 <= c /\ c < size

(* The cell holds no player's mark *)
Empty(g, r, c) == g[r][c] = emptySymbol

(* A move the rules refuse: outside the board or onto a mark *)
Refused(g, r, c) == ~InBounds(r, c) \/ ~Empty(g, r, c)

(* The rows, the columns and the two diagonals of an n x n board, each as  *)
(* its set of cells                                                        *)
Lines(n) ==
    { { << i, j >> : j \in Idx(n) } : i \in Idx(n) }
        \cup { { << j, i >> : j \in Idx(n) } : i \in Idx(n) }
        \cup { { << i, i >> : i \in Idx(n) } }
        \cup { { << i, n - 1 - i >> : i \in Idx(n) } }

Owns(g, line, m) == \A cell \in line : g[cell[1]][cell[2]] = m

Marks == { players[i].s : i \in 1 .. Len(players) }

(* Some line is occupied entirely by one player's mark *)
SomeLineOwned(g, n) == \E line \in Lines(n) : \E m \in Marks : Owns(g, line, m)

Full(g, n) == \A cell \in Cells(n) : g[cell[1]][cell[2]] # emptySymbol

NonEmptyCells(g, n) == { cell \in Cells(n) : g[cell[1]][cell[2]] # emptySymbol }

WinAnnounced(o) == \E i \in 1 .. Len(players) : Wins(players[i]) \in Range(o)

(* A step of the loop that reads a move *)
ReadsMove == pc = "loop" /\ ~gameOver /\ pc' = "loop"

(* A step that places a mark *)
Placed == grid' # grid

(* C1: in every reachable state and for every pair (row, col), the move    *)
(* validator accepts the move exactly when 0 <= row < n, 0 <= col < n and  *)
(* the cell (row, col) is Empty; out-of-bounds and occupied targets are    *)
(* both refused.                                                           *)
C1_ValidatorAcceptsIffInBoundsAndEmpty ==
    \A r \in Inputs : \A c \in Inputs :
        isValidMove(grid, size, r, c) <=> (InBounds(r, c) /\ Empty(grid, r, c))

(* A move onto an occupied cell of a 3 x 3 board has just been refused *)
C1_Witness ==
    /\ size = 3
    /\ Invalid \in Range(out)
    /\ InBounds(row, col)
    /\ ~Empty(grid, row, col)

(* C2: a refused move (occupied target, or row/col outside [0, n)) changes *)
(* nothing: the grid is the same cell for cell, the same player is asked   *)
(* again, the game is not over and the only output is the invalid-move     *)
(* message.                                                                *)
C2_RefusedMoveStep ==
    (ReadsMove /\ Refused(grid, row', col'))
        => /\ grid' = grid
           /\ currentPlayerIndex' = currentPlayerIndex
           /\ gameOver' = FALSE
           /\ movesCount' = movesCount
           /\ size' = size
           /\ out' = << Prompt(players[currentPlayerIndex + 1]), Invalid >>

C2_RefusedMoveChangesNothing == [][C2_RefusedMoveStep]_vars

(* The move (5,5) has just been refused on a 3 x 3 board holding marks *)
C2_Witness ==
    /\ size = 3
    /\ row = 5
    /\ col = 5
    /\ movesCount > 0
    /\ ~gameOver
    /\ Invalid \in Range(out)

(* C3: after every accepted move a win is announced exactly when some full *)
(* row, column, main diagonal or anti-diagonal is occupied entirely by one *)
(* player's mark, whichever player that is.                                *)
C3_PlacedStep ==
    Placed => (WinAnnounced(out') <=> SomeLineOwned(grid', size))

C3_WinIffSomeLineOwned == [][C3_PlacedStep]_vars

(* The second player has just won on the anti-diagonal of a 3 x 3 board *)
C3_Witness ==
    /\ size = 3
    /\ Wins(players[2]) \in Range(out)
    /\ Owns(grid, { << i, size - 1 - i >> : i \in Idx(size) }, players[2].s)

(* C4: after every accepted move a draw is reported exactly when the grid  *)
(* is completely full and no line is fully owned by one player.            *)
C4_PlacedStep ==
    Placed => (Draw \in Range(out') <=> (Full(grid', size) /\ ~SomeLineOwned(grid', size)))

C4_DrawIffFullAndNoLine == [][C4_PlacedStep]_vars

(* A draw has just been reported on a full 3 x 3 board *)
C4_Witness ==
    /\ size = 3
    /\ Draw \in Range(out)
    /\ Full(grid, size)

(* C5: the win is tested before the draw: the accepted move that fills the *)
(* last empty cell and completes a line for the mover announces the        *)
(* mover's win, and no draw is reported on such a board.                   *)
C5_LastCellStep ==
    LET mover == players[currentPlayerIndex + 1]
    IN  (Full(grid', size) /\ \E line \in Lines(size) : Owns(grid', line, mover.s))
            => /\ Draw \notin Range(out')
               /\ Placed => /\ out' = << Prompt(mover), Display, Wins(mover) >>
                            /\ gameOver'

C5_WinBeforeDraw == [][C5_LastCellStep]_vars

(* The ninth move of a 3 x 3 game has just won it *)
C5_Witness ==
    /\ size = 3
    /\ movesCount = 9
    /\ Full(grid, size)
    /\ WinAnnounced(out)

(* C6: turns alternate strictly, starting with X: the k-th accepted move   *)
(* is asked of, and marked for, Player 1 (X) when k is odd and Player 2    *)
(* (O) when k is even, however many refused moves come in between.         *)
C6_TurnStep ==
    ReadsMove =>
        LET k == movesCount + 1
            expected == IF k % 2 = 1 THEN players[1] ELSE players[2]
        IN  /\ Len(out') > 0
            /\ Head(out') = Prompt(expected)
            /\ Placed => /\ movesCount' = k
                         /\ grid'[row'][col'] = expected.s
                         /\ expected.s = (IF k % 2 = 1 THEN "X" ELSE "O")

C6_TurnsAlternateFromX == [][C6_TurnStep]_vars

(* Player 2 has just had a move refused after three accepted moves, and is *)
(* still the player to move                                                *)
C6_Witness ==
    /\ movesCount = 3
    /\ out = << Prompt(players[2]), Invalid >>
    /\ currentPlayerIndex = 1

(* C7: Won and Drawn are terminal: once gameOver is set it stays set, no   *)
(* further move is read, validated or placed, nothing more is printed, and *)
(* the grid and the current player never change again.                     *)
C7_GameOverStep ==
    gameOver =>
        /\ gameOver'
        /\ grid' = grid
        /\ currentPlayerIndex' = currentPlayerIndex
        /\ row' = row
        /\ col' = col
        /\ movesCount' = movesCount
        /\ out' = << >>
        /\ pc' = "done"

C7_TerminalStatesAreFinal == [][C7_GameOverStep]_vars

(* play() has returned after a win or a draw *)
C7_Witness ==
    /\ pc = "done"
    /\ gameOver
    /\ movesCount > 0

(* C8: the number of accepted moves so far equals the number of non-Empty  *)
(* cells of the grid, and it never decreases.                              *)
C8_CountsMarks == movesCount = Cardinality(NonEmptyCells(grid, size))

C8_NeverDecreases == movesCount' >= movesCount

C8_MovesCountIsMarkCount == [](C8_CountsMarks) /\ [][C8_NeverDecreases]_vars

(* Four moves were accepted on a 3 x 3 board and a fifth was then refused *)
C8_Witness ==
    /\ size = 3
    /\ movesCount = 4
    /\ Invalid \in Range(out)

(* The 3 x 3 board on which X holds (0,0),(0,2),(1,1),(2,0),(2,2) and O    *)
(* holds (0,1),(1,0),(1,2),(2,1)                                           *)
C9_XCells == { << 0, 0 >>, << 0, 2 >>, << 1, 1 >>, << 2, 0 >>, << 2, 2 >> }

C9_Board ==
    [r \in Idx(3) |-> [c \in Idx(3) |->
        IF << r, c >> \in C9_XCells THEN "X" ELSE "O"]]

(* C9 as stated: the game in which X plays exactly (0,0),(0,2),(1,1),      *)
(* (2,0),(2,2) and O exactly (0,1),(1,0),(1,2),(2,1) fills the board with  *)
(* no line completed and ends in Draw.                                     *)
C9_Original_EndsInDraw ==
    (size = 3 /\ grid = C9_Board)
        => /\ ~SomeLineOwned(grid, size)
           /\ gameOver
           /\ pc = "loop" => Draw \in Range(out)

(* C9, amended: on that board X owns both diagonals; the board is reached  *)
(* only by X placing (1,1) last, and the game then ends with Player 1's    *)
(* win and never with a draw.                                              *)
C9_EndsInWinForX ==
    (size = 3 /\ grid = C9_Board)
        => /\ Owns(grid, { << i, i >> : i \in Idx(3) }, "X")
           /\ Owns(grid, { << i, 2 - i >> : i \in Idx(3) }, "X")
           /\ gameOver
           /\ row = 1
           /\ col = 1
           /\ movesCount = 9
           /\ Draw \notin Range(out)
           /\ pc = "loop" => out = << Prompt(players[1]), Display, Wins(players[1]) >>

(* The board of C9 has been filled and the outcome announced *)
C9_Witness ==
    /\ size = 3
    /\ grid = C9_Board
    /\ pc = "loop"
    /\ gameOver

(* The moves of C10 in order, and the board after the first k of them *)
C10_Moves == << << 0, 0 >>, << 1, 1 >>, << 0, 1 >>, << 2, 2 >>, << 0, 2 >> >>

C10_Mark(k, r, c) ==
    IF \E i \in 1 .. k : C10_Moves[i] = << r, c >> /\ i % 2 = 1 THEN "X"
    ELSE IF \E i \in 1 .. k : C10_Moves[i] = << r, c >> /\ i % 2 = 0 THEN "O"
    ELSE emptySymbol

C10_Board ==
    [k \in 0 .. Len(C10_Moves) |-> [r \in Idx(3) |-> [c \in Idx(3) |-> C10_Mark(k, r, c)]]]

(* C10: on a 3 x 3 board the moves X(0,0), O(1,1), X(0,1), O(2,2), X(0,2)  *)
(* are accepted one after the other, the first four let the game continue  *)
(* with the other player, and the fifth announces Player 1's win on the    *)
(* top row and ends the game.                                              *)
C10_MoveStep ==
    (size = 3 /\ pc = "loop" /\ movesCount < Len(C10_Moves)) =>
        LET k == movesCount + 1
            mover == players[((k - 1) % 2) + 1]
        IN  grid = C10_Board[k - 1]
              => /\ ~gameOver
                 /\ currentPlayerIndex = (k - 1) % 2
                 /\ (row' = C10_Moves[k][1] /\ col' = C10_Moves[k][2])
                      => /\ grid' = C10_Board[k]
                         /\ pc' = "loop"
                         /\ IF k < Len(C10_Moves)
                            THEN /\ out' = << Prompt(mover), Display >>
                                 /\ ~gameOver'
                                 /\ currentPlayerIndex' = k % 2
                            ELSE /\ out' = << Prompt(mover), Display, Wins(players[1]) >>
                                 /\ gameOver'
                                 /\ Owns(grid', { << 0, c >> : c \in Idx(3) }, "X")

C10_TopRowWinForX == [][C10_MoveStep]_vars

(* X has just completed the top row with (0,2) as the fifth move *)
C10_Witness ==
    /\ size = 3
    /\ grid = C10_Board[5]
    /\ row = 0
    /\ col = 2
    /\ gameOver
    /\ out = << Prompt(players[1]), Display, Wins(players[1]) >>

(* The sum of the contributions of the marks on a line *)
LineSum(g, line) ==
    contribution(players[1]) * Cardinality({ cell \in line : g[cell[1]][cell[2]] = players[1].s })
        + contribution(players[2]) * Cardinality({ cell \in line : g[cell[1]][cell[2]] = players[2].s })

RowLine(n, i) == { << i, j >> : j \in Idx(n) }
ColLine(n, i) == { << j, i >> : j \in Idx(n) }
DiagLine(n) == { << i, i >> : i \in Idx(n) }
AntiDiagLine(n) == { << i, n - 1 - i >> : i \in Idx(n) }

OwnedByOne(g, line) == \E m \in Marks : Owns(g, line, m)

(* C11, the accumulators: each accumulator is the sum of the contributions *)
(* of the marks on its line, and an accumulator of magnitude n means its   *)
(* line is fully occupied by one player.                                   *)
C11_AccumulatorsMeanOwnedLines ==
    /\ \A i \in Idx(size) :
          /\ rowAcc[i] = LineSum(grid, RowLine(size, i))
          /\ colAcc[i] = LineSum(grid, ColLine(size, i))
          /\ Abs(rowAcc[i]) = size => OwnedByOne(grid, RowLine(size, i))
          /\ Abs(colAcc[i]) = size => OwnedByOne(grid, ColLine(size, i))
    /\ diagAcc = LineSum(grid, DiagLine(size))
    /\ antiDiagAcc = LineSum(grid, AntiDiagLine(size))
    /\ Abs(diagAcc) = size => OwnedByOne(grid, DiagLine(size))
    /\ Abs(antiDiagAcc) = size => OwnedByOne(grid, AntiDiagLine(size))

(* C11, the detectors: after every accepted move the counter-based test on *)
(* the accumulators just touched and the scan checkWin(mover's mark)       *)
(* report the same result, which is also what the game announces.          *)
C11_DetectorsAgreeStep ==
    Placed =>
        LET mover == players[currentPlayerIndex + 1]
            inc == incrementalWin(rowAcc', colAcc', diagAcc', antiDiagAcc', size, row', col')
        IN  /\ inc <=> checkWin(grid', size, mover.s)
            /\ inc <=> (Len(out') = 3 /\ out'[3] = << "wins", mover.name >>)

(* C11: with contributions +1 and -1 the counter-based detector and the    *)
(* brute-force scan are equivalent on every accepted move of every game,   *)
(* and an accumulator of magnitude n always means its line is fully        *)
(* occupied by one player.                                                 *)
C11_DetectorsEquivalent ==
    [](C11_AccumulatorsMeanOwnedLines) /\ [][C11_DetectorsAgreeStep]_vars

(* The second player has just won a 3 x 3 game on a column whose           *)
(* accumulator reached -3                                                  *)
C11_Witness ==
    /\ size = 3
    /\ gameOver
    /\ pc = "loop"
    /\ colAcc[col] = 0 - 3
    /\ Abs(rowAcc[row]) < 3
    /\ Wins(players[2]) \in Range(out)

(* C12: each accepted move changes the grid exactly once: the targeted     *)
(* cell goes from Empty to the mover's mark and every other cell is        *)
(* unchanged; in every step a cell that holds a mark keeps that mark.      *)
C12_GridStep ==
    LET mover == players[currentPlayerIndex + 1]
    IN  /\ Placed =>
              /\ InBounds(row', col')
              /\ grid[row'][col'] = emptySymbol
              /\ grid'[row'][col'] = mover.s
              /\ \A cell \in Cells(size) :
                    cell # << row', col' >> => grid'[cell[1]][cell[2]] = grid[cell[1]][cell[2]]
              /\ movesCount' = movesCount + 1
        /\ \A cell \in Cells(size) :
              grid[cell[1]][cell[2]] # emptySymbol => grid'[cell[1]][cell[2]] = grid[cell[1]][cell[2]]
        /\ size' = size

C12_OneCellPerAcceptedMove == [][C12_GridStep]_vars

(* The second player's mark has just been placed off the diagonal next to  *)
(* an earlier mark                                                         *)
C12_Witness ==
    /\ size = 3
    /\ movesCount = 2
    /\ row # col
    /\ out = << Prompt(players[2]), Display >>
    /\ grid[row][col] = players[2].s

(* What an accepted move leads to *)
C13_Won(mover) ==
    /\ gameOver'
    /\ Len(out') = 3
    /\ out'[3] = << "wins", mover.name >>
    /\ \E line \in Lines(size) : Owns(grid', line, mover.s)

C13_Drawn ==
    /\ gameOver'
    /\ Len(out') = 3
    /\ out'[3] = << "draw", "" >>

C13_AwaitingNext ==
    /\ ~gameOver'
    /\ Len(out') = 2
    /\ currentPlayerIndex' = (currentPlayerIndex + 1) % Len(players)

(* C13: from AwaitingMove(P) an accepted move leads to exactly one of      *)
(* Won(P), Drawn and AwaitingMove(next(P)); the announced winner is the    *)
(* player who made the move, whose mark fills a complete line, and the     *)
(* player who did not move is never announced.                             *)
C13_AcceptedStep ==
    Placed =>
        LET mover == players[currentPlayerIndex + 1]
            other == players[((currentPlayerIndex + 1) % Len(players)) + 1]
        IN  /\ \/ C13_Won(mover) /\ ~C13_Drawn /\ ~C13_AwaitingNext
               \/ ~C13_Won(mover) /\ C13_Drawn /\ ~C13_AwaitingNext
               \/ ~C13_Won(mover) /\ ~C13_Drawn /\ C13_AwaitingNext
            /\ << "wins", other.name >> \notin Range(out')
            /\ mover.s = grid'[row'][col']

C13_AcceptedMoveOutcome == [][C13_AcceptedStep]_vars

(* The first player has just won a 3 x 3 game while the second player owns *)
(* no line                                                                 *)
C13_Witness ==
    /\ size = 3
    /\ gameOver
    /\ out = << Prompt(players[1]), Display, << "wins", "Player 1" >> >>
    /\ grid[row][col] = "X"
    /\ ~ \E line \in Lines(size) : Owns(grid, line, "O")

C14_Announcements == { << "draw", "" >> } \cup { << "wins", players[i].name >> : i \in 1 .. Len(players) }

C14_Count(o, lines) == Cardinality({ i \in 1 .. Len(o) : o[i] \in lines })

(* C14: the board is rendered once before the first prompt and exactly     *)
(* once after each accepted move, ahead of any announcement for that move; *)
(* a refused move prints the invalid-move message and no rendering; the    *)
(* announcement of a winner or of a draw is printed once, when the game    *)
(* ends, and nothing is printed after it.                                  *)
C14_OutputStep ==
    /\ pc = "start" => out' = << << "display", "" >> >>
    /\ ReadsMove =>
          /\ Len(out') >= 2
          /\ out'[1][1] = "turn"
          /\ IF Placed
             THEN /\ out'[2] = << "display", "" >>
                  /\ C14_Count(out', { << "display", "" >> }) = 1
                  /\ << "invalid", "" >> \notin Range(out')
                  /\ Len(out') <= 3
                  /\ Len(out') = 3 => out'[3] \in C14_Announcements
                  /\ gameOver' <=> Len(out') = 3
             ELSE /\ out' = << out'[1], << "invalid", "" >> >>
                  /\ ~gameOver'
    /\ C14_Count(out', C14_Announcements) <= 1
    /\ C14_Count(out', C14_Announcements) = 1 => (~gameOver /\ gameOver' /\ out'[Len(out')] \in C14_Announcements)
    /\ gameOver => out' = << >>

C14_RenderingAndAnnouncement == [][C14_OutputStep]_vars

(* play() has returned, printing nothing after the draw announced on the   *)
(* full 3 x 3 board                                                        *)
C14_Witness ==
    /\ size = 3
    /\ pc = "done"
    /\ out = << >>
    /\ movesCount = 9
    /\ ~SomeLineOwned(grid, size)

(* C15, the bound: on a board of size n >= 1 at most n * n moves are       *)
(* accepted, and the game is over once n * n have been.                    *)
C15_AtMostAllCells ==
    size >= 1 =>
        /\ movesCount <= size * size
        /\ movesCount = size * size => gameOver

(* C15: for every board size n >= 1 the game is Won or Drawn after at most *)
(* n * n accepted moves, and if the player to move eventually enters a     *)
(* valid move the game eventually ends.                                    *)
C15_GameEnds ==
    [](C15_AtMostAllCells) /\ ((size >= 1) ~> (gameOver /\ movesCount <= size * size))

(* A 3 x 3 game has ended on its ninth accepted move *)
C15_Witness ==
    /\ size = 3
    /\ movesCount = size * size
    /\ gameOver
    /\ pc = "loop"

(* C16: in every reachable state of a game on a board of size n >= 1 that  *)
(* is not over, no row, column or diagonal is fully owned by either player *)
(* and at least one cell is Empty, so the player to move has a valid move. *)
C16_OpenGameHasValidMove ==
    (size >= 1 /\ ~gameOver) =>
        /\ ~SomeLineOwned(grid, size)
        /\ \E cell \in Cells(size) : grid[cell[1]][cell[2]] = emptySymbol
        /\ \E r \in Inputs : \E c \in Inputs : isValidMove(grid, size, r, c)

(* Eight moves have been accepted on a 3 x 3 board and the game goes on *)
C16_Witness ==
    /\ size = 3
    /\ movesCount = 8
    /\ ~gameOver
    /\ pc = "loop"

CountOf(g, n, m) == Cardinality({ cell \in Cells(n) : g[cell[1]][cell[2]] = m })

(* C17: the number of X marks equals the number of O marks or exceeds it   *)
(* by exactly one, and while the game is not over it is X's turn exactly   *)
(* when the two numbers are equal.                                         *)
C17_MarkCountsFollowTurns ==
    LET nX == CountOf(grid, size, "X")
        nO == CountOf(grid, size, "O")
    IN  /\ nX = nO \/ nX = nO + 1
        /\ ~gameOver => (players[currentPlayerIndex + 1].s = "X" <=> nX = nO)

(* The second player is to move on a 3 x 3 board holding three X and two O *)
C17_Witness ==
    /\ size = 3
    /\ ~gameOver
    /\ CountOf(grid, size, "X") = 3
    /\ CountOf(grid, size, "O") = 2
    /\ players[currentPlayerIndex + 1].s = "O"
    /\ Invalid \in Range(out)

====
